---- MODULE Spec2Model ----
(***************************************************************************)
(* build-service.py: the create / restart / delete pipelines of the KaaS   *)
(* build service, in its server form (Flask handlers build_request,        *)
(* restart_request, delete_request) and its one-shot form (__main__).      *)
(*                                                                         *)
(* A run is one handler invocation (or one one-shot process).  Every       *)
(* external call a run makes (git, file reads in the checkout, registry,   *)
(* build engine, cluster API) is appended to calls[r] with its outcome, so *)
(* the properties below are statements about the calls of a run.           *)
(***************************************************************************)
EXTENDS Integers, Sequences, FiniteSets, TLC

\* ------------------------------------------------------------------ bounds
MaxRuns == 2
MaxTrees == 2

Runs == 1..MaxRuns
TreeNames == 1..MaxTrees
NoTree == 0

\* --------------------------------------------------------------- documents
\* A descriptor is reduced to the fields the program and the cluster read:
\* its kind, metadata.name and spec.template.spec.containers[0].image.
NoName == "<none>"
NoImage == "<none>"
NoPath == "<none>"
NoExc == "<none>"
NullBranch == "<null>"

\* Python None (an empty YAML document, or no return value)
NoDoc == [kind |-> "None", name |-> NoName, image |-> NoImage]

Dsvc == [kind |-> "Deployment", name |-> "svc", image |-> "svc:1"]

Dweb == [kind |-> "Deployment", name |-> "web", image |-> "web:2"]

\* a deployment document without containers[0].image
DnoImage == [kind |-> "Deployment", name |-> "svc", image |-> NoImage]

ServiceDoc == [kind |-> "Service", name |-> "svc", image |-> NoImage]

DeployDocs == {Dsvc, Dweb, DnoImage}

Names == {"svc", "web"}

\* ---------------------------------------------------------------- requests
AllKeys == {"repo_url", "repo_branch", "deploy_config", "service_config"}

KeySets == {AllKeys, AllKeys \ {"service_config"}, AllKeys \ {"repo_url"}}

NullRef == [kind |-> "null", path |-> NoPath, doc |-> NoDoc]

StrRef(p) == [kind |-> "str", path |-> p, doc |-> NoDoc]

ObjRef(d) == [kind |-> "obj", path |-> NoPath, doc |-> d]

\* files a repository may hold; any other string names no file of the repo
RepoPaths == {"kaas.deploy.yml", "kaas.service.yml", "alt.yml"}

\* a string that is a serialized payload with broken syntax, not a path
BadPayload == "{spec: [image"

\* deploy_config of a request: null, a string, or an inline object
DeployRefs == {NullRef, StrRef("alt.yml"), StrRef(BadPayload), ObjRef(Dsvc), ObjRef(Dweb)}

ServiceRefs == {NullRef, ObjRef(ServiceDoc)}

Branches == {NullBranch, "main"}

Request(form, op, keys, branch, deploy, service, name) ==
    [form |-> form, op |-> op, keys |-> keys, branch |-> branch,
     deploy |-> deploy, service |-> service, name |-> name]

NoRequest == Request("none", "none", {}, NullBranch, NullRef, NullRef, NoName)

\* POST /build bodies
CreateRequests ==
    {Request("server", "create", AllKeys, b, d, s, NoName) :
        b \in Branches, d \in DeployRefs, s \in ServiceRefs}
    \cup {Request("server", "create", k, "main", NullRef, NullRef, NoName) :
            k \in KeySets \ {AllKeys}}

\* PATCH /build/<image_name> bodies
RestartRequests ==
    {Request("server", "restart", k, b, d, NullRef, n) :
        k \in {AllKeys, AllKeys \ {"service_config"}},
        b \in Branches, d \in DeployRefs, n \in Names}
    \cup {Request("server", "restart", AllKeys \ {"repo_url"}, "main", NullRef, NullRef, n) :
            n \in Names}

\* DELETE /build/<image_name>
DeleteRequests ==
    {Request("server", "delete", {}, NullBranch, NullRef, NullRef, n) : n \in Names}

\* command lines of the one-shot form (docopt: --branch defaults to "main",
\* --deploy-conf / --service-conf are absent or strings)
CliRequests ==
    {Request("cli", op, {}, "main", d, s, IF op = "create" THEN NoName ELSE n) :
        op \in {"create", "restart", "delete"},
        d \in {NullRef, StrRef("alt.yml")},
        s \in {NullRef, StrRef("kaas.service.yml")},
        n \in Names}

Requests == CreateRequests \cup RestartRequests \cup DeleteRequests \cup CliRequests

\* ------------------------------------------------------------------- state
VARIABLES
    pc,            \* pc[r]: the step run r is at
    req,           \* req[r]: the request (reqj / args) of run r
    tree,          \* tree[r]: repo_dir of run r, NoTree when none was made
    deploy_conf,   \* deploy_conf[r]: what get_deploy_conf returned
    service_conf,  \* service_conf[r]: what get_service_conf returned
    image_name,    \* image_name[r]
    calls,         \* calls[r]: the external calls of run r, in order
    result,        \* result[r]: the response / exit of run r
    fs,            \* the temporary directories that exist
    cluster,       \* deployments of namespace "default": name -> body
    host,          \* platform.machine() of the build host
    limit,         \* how many runs the front end lets overlap
    pool           \* the requests the callers send

vars == <<pc, req, tree, deploy_conf, service_conf, image_name, calls, result,
          fs, cluster, host, limit, pool>>

\* ------------------------------------------------------------ call records
\* op: the call; tree: the directory it works in; reg, text: the registry and
\* the name / path / branch it is given; doc: the document it reads or sends;
\* plats: the platform list a registry answer carries; out: how it ended
Call(op, t, reg, text, doc, plats, out) ==
    [op |-> op, tree |-> t, reg |-> reg, text |-> text, doc |-> doc,
     plats |-> plats, out |-> out]

NoResult == [kind |-> "none", status |-> 0, image |-> NoImage,
             prefix |-> "", cause |-> NoExc]

\* return {"image": image_name}  (Flask: status 200)
Image(tag) == [kind |-> "image", status |-> 200, image |-> tag,
               prefix |-> "", cause |-> NoExc]

\* return {"err": f"<prefix>: {e}"}, status
Err(status, prefix, e) == [kind |-> "err", status |-> status, image |-> NoImage,
                           prefix |-> prefix, cause |-> e]

\* an exception no handler catches: Flask answers its generic 500 page,
\* the one-shot process dies with a traceback and status 1
Unhandled(status, e) == [kind |-> "unhandled", status |-> status, image |-> NoImage,
                         prefix |-> "", cause |-> e]

\* the one-shot process ends: exit(1) after logging, or falls off the end
Exit(status, prefix, e) == [kind |-> "exit", status |-> status, image |-> NoImage,
                            prefix |-> prefix, cause |-> e]

\* ------------------------------------------------------- the build host
\* platform.system() of the host, and the machines a host may report
System == "Linux"

Machines == {"x86_64", "aarch64", "riscv64"}

\* str.lower() on the strings that occur
Lower(s) == CASE s = "Linux" -> "linux"
              [] s = "Darwin" -> "darwin"
              [] OTHER -> s

\* plat.machine() arch string -> docker's arch string
platform_mappings ==
    [m \in {"python", "x86", "x86_64", "armv7l", "aarch64"} |->
        CASE m = "python" -> "docker"
          [] m = "x86" -> "386"
          [] m = "x86_64" -> "amd64"
          [] m = "armv7l" -> "arm"
          [] m = "aarch64" -> "arm64"]

\* f"{platform.system()}/{platform_mappings[platform.machine()]}".lower(),
\* kept as the pair <<os, architecture>>; a machine without an entry is a
\* KeyError
\* a lookup that lets every machine through
M_PlatformMapped(machine) == TRUE

PlatformMapped(machine) == machine \in DOMAIN platform_mappings

platform_str(machine) == <<Lower(System), Lower(platform_mappings[machine])>>

\* fromdata.attrs["Platforms"] of the base image, as [f"{os}/{architecture}"]
Manifests == {{<<"linux", "amd64">>, <<"linux", "arm64">>}, {<<"linux", "arm64">>}}

\* the platform the registry call is logged with when there is no manifest
NoPlatforms == {}

\* a check that only refuses a base image publishing no platform at all
M_ArchUnsupported(pstr, platforms) == platforms = {}

\* `platform_str not in platforms`
ArchUnsupported(pstr, platforms) == pstr \notin platforms

\* ------------------------------------------------------------ config files
\* what open()/yaml.load find at a path of the checkout
FileStates(path) ==
    IF path \in RepoPaths
    THEN {[state |-> "missing", doc |-> NoDoc], [state |-> "malformed", doc |-> NoDoc]}
         \cup {[state |-> "ok", doc |-> d] :
                 d \in IF path = "kaas.service.yml" THEN {ServiceDoc}
                       ELSE DeployDocs \cup {NoDoc}}
    ELSE {[state |-> "missing", doc |-> NoDoc]}

Returned(d) == [exc |-> NoExc, doc |-> d]

Raised(e) == [exc |-> e, doc |-> NoDoc]

load_config_file(file) ==
    IF file.state = "missing" THEN Raised("MissingConfigFile")
    ELSE IF file.state = "malformed" THEN Raised("YAMLError")
    ELSE Returned(file.doc)

\* the path get_deploy_conf / get_service_conf open, NoPath when they open none
ConfPath(conf, default) ==
    IF conf.kind = "null" THEN default
    ELSE IF conf.kind = "str" THEN conf.path
    ELSE NoPath

\* a conf that is neither None nor a str falls off the end: returns None
get_deploy_conf(conf, file) ==
    IF ConfPath(conf, "kaas.deploy.yml") # NoPath THEN load_config_file(file)
    ELSE Returned(NoDoc)

\* a service file treated as optional: a missing or broken one gives None
M_get_service_conf(conf, file) ==
    IF ConfPath(conf, "kaas.service.yml") # NoPath /\ file.state = "ok"
    THEN Returned(file.doc)
    ELSE Returned(NoDoc)

get_service_conf(conf, file) ==
    IF ConfPath(conf, "kaas.service.yml") # NoPath THEN load_config_file(file)
    ELSE Returned(NoDoc)

\* a tag made from metadata.name, not read from the container spec
M_ImageFieldFromName(d) ==
    IF d = NoDoc THEN Raised("TypeError")
    ELSE IF d.image = NoImage THEN Raised("KeyError")
    ELSE [exc |-> NoExc, doc |-> [d EXCEPT !.image = d.name]]

\* a lookup that yields None for a missing field (dict.get) and raises nothing
M_ImageFieldUnchecked(d) == [exc |-> NoExc, doc |-> d]

\* deploy_conf["spec"]["template"]["spec"]["containers"][0]["image"]
ImageField(d) ==
    IF d = NoDoc THEN Raised("TypeError")
    ELSE IF d.image = NoImage THEN Raised("KeyError")
    ELSE [exc |-> NoExc, doc |-> d]

\* the reference handed to dclient.images.push: registry prefix and name
PushRegistry == "localhost:5000"

\* -------------------------------------------------------------- exceptions
ApiExceptions == {"ApiException: Not Found", "ApiException: Conflict",
                  "ApiException: Unprocessable", "ApiException: Server Error"}

IsApiException(e) == e \in ApiExceptions

\* failures of the transport to the cluster: an API error status, or no
\* connection at all (urllib3 MaxRetryError, not an ApiException)
TransportFailures == {"ApiException: Server Error", "MaxRetryError"}

InBuildRepo(stage) == stage \in {"recipe", "platform", "registry", "build", "push"}

IsClusterStage(stage) == stage \in {"create", "patch", "delete"}

\* build_request: try/except Exception around build_repo, try/except
\* ApiException around create_namespaced_deployment, nothing around the rest
build_request_raise(stage, e) ==
    IF InBuildRepo(stage) THEN Err(500, "Failed to build", e)
    ELSE IF stage = "create" /\ IsApiException(e) THEN Err(500, "Failed to deploy", e)
    ELSE Unhandled(500, e)

delete_request_raise(stage, e) ==
    IF stage = "delete" /\ IsApiException(e) THEN Err(500, "Failed to deploy", e)
    ELSE Unhandled(500, e)

restart_request_raise(stage, e) ==
    IF stage = "patch" /\ IsApiException(e) THEN Err(500, "Failed to restart", e)
    ELSE Unhandled(500, e)

\* __main__: try/except Exception around build_repo -> exit(1); try/except
\* ApiException around the cluster calls -> exit(1); the rest is a traceback
main_raise(stage, e) ==
    IF InBuildRepo(stage) THEN Exit(1, "Error building repo", e)
    ELSE IF IsClusterStage(stage) /\ IsApiException(e) THEN Exit(1, "Error deploying repo", e)
    ELSE Unhandled(1, e)

Raise(rq, stage, e) ==
    IF rq.form = "cli" THEN main_raise(stage, e)
    ELSE IF rq.op = "create" THEN build_request_raise(stage, e)
    ELSE IF rq.op = "restart" THEN restart_request_raise(stage, e)
    ELSE delete_request_raise(stage, e)

\* the value a run that met no exception ends with
Return(rq, img) ==
    IF rq.form = "cli" THEN Exit(0, "", NoExc)
    ELSE IF rq.op = "create" THEN Image(img)
    ELSE Image(rq.name)

\* ------------------------------------------------------------ stage order
\* a one-shot form that forgets its --restart / --delete branches
M_AfterKubeConfig(rq) ==
    IF rq.form = "cli" THEN "recipe"
    ELSE IF rq.op = "restart" THEN "patch"
    ELSE IF rq.op = "delete" THEN "delete"
    ELSE "create"

\* a restart that submits its descriptor with the create call
M_AfterKubeConfigCreates(rq) ==
    IF rq.op = "delete" THEN "delete"
    ELSE IF rq.form = "server" \/ rq.op = "restart" THEN "create"
    ELSE "recipe"

\* the cluster call, or build_repo, that follows load_kube_config(): the
\* handlers make their own call; __main__ branches on --restart / --delete
\* and otherwise runs build_repo first
AfterKubeConfig(rq) ==
    IF rq.op = "restart" THEN "patch"
    ELSE IF rq.op = "delete" THEN "delete"
    ELSE IF rq.form = "server" THEN "create"
    ELSE "recipe"

\* the step that follows `stage` when it raised nothing
After(rq, stage) ==
    CASE stage = "clone" -> "checkout"
      [] stage = "checkout" -> "deployconf"
      [] stage = "deployconf" ->
            IF rq.form = "server" /\ rq.op = "restart" THEN "kubeconfig" ELSE "serviceconf"
      [] stage = "serviceconf" -> IF rq.form = "server" THEN "recipe" ELSE "kubeconfig"
      [] stage = "recipe" -> "platform"
      [] stage = "platform" -> "registry"
      [] stage = "registry" -> "build"
      [] stage = "build" -> "push"
      [] stage = "push" -> IF rq.form = "server" THEN "kubeconfig" ELSE "create"
      [] stage = "kubeconfig" -> AfterKubeConfig(rq)
      [] OTHER -> "done"

\* ---------------------------------------------------------------- receive
\* the keys a handler requires of reqj
RequiredKeys(rq) ==
    IF rq.op = "create" THEN {"repo_url", "repo_branch", "deploy_config", "service_config"}
    ELSE IF rq.op = "restart" THEN {"repo_url", "repo_branch", "deploy_config"}
    ELSE {}

MissingKeys(rq) == rq.form = "server" /\ ~(RequiredKeys(rq) \subseteq rq.keys)

\* a fixed scratch directory instead of a fresh one
M_FreshNames(dirs) == {1}

\* tempfile.TemporaryDirectory(prefix="kaas-repo-build-"): mkdtemp makes a
\* directory under a name no existing directory has
FreshNames(dirs) == TreeNames \ dirs

\* a delete handler that checks the repository out like the other two
M_OpensTree(rq) == TRUE

\* whether the run opens `with tempfile.TemporaryDirectory(...) as repo_dir`
OpensTree(rq) == rq.form = "cli" \/ rq.op \in {"create", "restart"}

\* a directory removed by a call at the end of the block, not by the with
\* statement: an exception or exit() leaves it behind
M_TemporaryDirectoryExit(dirs, t, res) ==
    IF res.kind = "image" \/ (res.kind = "exit" /\ res.status = 0) THEN dirs \ {t} ELSE dirs

\* TemporaryDirectory.__exit__: the directory is removed however the block
\* is left (return, exception, SystemExit)
TemporaryDirectoryExit(dirs, t, res) == dirs \ {t}

\* ----------------------------------------------------------- the cluster
NoDeployments == [n \in Names |-> NoDoc]

\* a strategic-merge patch keeps the fields the body does not mention
Merge(old, body) ==
    [old EXCEPT !.image = IF body.image = NoImage THEN old.image ELSE body.image]

Outcome(e, cl) == [exc |-> e, cluster |-> cl]

\* create_namespaced_deployment(body=..., namespace="default")
ClusterCreate(cl, body) ==
    IF body = NoDoc THEN {Outcome("ValueError", cl)}
    ELSE {Outcome(e, cl) : e \in TransportFailures}
         \cup {IF cl[body.name] # NoDoc THEN Outcome("ApiException: Conflict", cl)
               ELSE Outcome(NoExc, [cl EXCEPT ![body.name] = body])}

\* patch_namespaced_deployment(name=..., namespace="default", body=...):
\* the client refuses body=None before it sends anything (ValueError)
ClusterPatch(cl, name, body) ==
    IF body = NoDoc THEN {Outcome("ValueError", cl)}
    ELSE {Outcome(e, cl) : e \in TransportFailures}
         \cup {IF cl[name] = NoDoc THEN Outcome("ApiException: Not Found", cl)
               ELSE IF body.name # name THEN Outcome("ApiException: Unprocessable", cl)
               ELSE Outcome(NoExc, [cl EXCEPT ![name] = Merge(cl[name], body)])}

\* delete_namespaced_deployment(name=..., namespace="default")
ClusterDelete(cl, name) ==
    {Outcome(e, cl) : e \in TransportFailures}
    \cup {IF cl[name] = NoDoc THEN Outcome("ApiException: Not Found", cl)
          ELSE Outcome(NoExc, [cl EXCEPT ![name] = NoDoc])}

\* ------------------------------------------------------------------- Init
\* Runs share nothing but the cluster and the temporary-directory namespace.
\* Spec serves the requests one after another (limit = 1), each drawn from
\* the whole of Requests, against the cluster the earlier runs left behind.
Init ==
    /\ pc = [r \in Runs |-> "idle"]
    /\ req = [r \in Runs |-> NoRequest]
    /\ tree = [r \in Runs |-> NoTree]
    /\ deploy_conf = [r \in Runs |-> NoDoc]
    /\ service_conf = [r \in Runs |-> NoDoc]
    /\ image_name = [r \in Runs |-> NoImage]
    /\ calls = [r \in Runs |-> <<>>]
    /\ result = [r \in Runs |-> NoResult]
    /\ fs = {}
    /\ cluster = NoDeployments
    /\ host \in Machines
    /\ limit = 1
    /\ pool = Requests

\* the requests of SpecConc: a create and a restart call that carry their
\* descriptor inline, and a remove call
ConcRequests ==
    {Request("server", "create", AllKeys, NullBranch, ObjRef(Dsvc), ObjRef(ServiceDoc), NoName),
     Request("server", "restart", AllKeys, "main", ObjRef(Dsvc), NullRef, "svc"),
     Request("server", "delete", {}, NullBranch, NullRef, NullRef, "svc")}

\* SpecConc: the threaded server on an x86_64 host; every run slot may be in
\* progress at once, each with its own TemporaryDirectory
InitConc ==
    /\ pc = [r \in Runs |-> "idle"]
    /\ req = [r \in Runs |-> NoRequest]
    /\ tree = [r \in Runs |-> NoTree]
    /\ deploy_conf = [r \in Runs |-> NoDoc]
    /\ service_conf = [r \in Runs |-> NoDoc]
    /\ image_name = [r \in Runs |-> NoImage]
    /\ calls = [r \in Runs |-> <<>>]
    /\ result = [r \in Runs |-> NoResult]
    /\ fs = {}
    /\ cluster = NoDeployments
    /\ host = "x86_64"
    /\ limit = MaxRuns
    /\ pool = ConcRequests

\* ---------------------------------------------------------------- helpers
\* the run ends with `res`; leaving the with-block removes its directory
Finish(r, res) ==
    /\ pc' = [pc EXCEPT ![r] = "done"]
    /\ result' = [result EXCEPT ![r] = res]
    /\ fs' = IF tree[r] # NoTree THEN TemporaryDirectoryExit(fs, tree[r], res) ELSE fs

\* the stage at pc[r] made `call`; it raised e, or nothing (NoExc)
Step(r, call, e) ==
    /\ calls' = [calls EXCEPT ![r] = Append(@, call)]
    /\ IF e = NoExc
       THEN /\ pc' = [pc EXCEPT ![r] = After(req[r], pc[r])]
            /\ UNCHANGED <<result, fs>>
       ELSE Finish(r, Raise(req[r], pc[r], e))

\* the stage at pc[r] made no external call; it raised e, or nothing
Quiet(r, e) ==
    /\ UNCHANGED calls
    /\ IF e = NoExc
       THEN /\ pc' = [pc EXCEPT ![r] = After(req[r], pc[r])]
            /\ UNCHANGED <<result, fs>>
       ELSE Finish(r, Raise(req[r], pc[r], e))

\* ---------------------------------------------------------------- actions
\* build_request / restart_request / delete_request are entered with reqj,
\* __main__ with args: the key check, then the TemporaryDirectory is made
Receive(r) ==
    /\ pc[r] = "idle"
    /\ Cardinality({q \in Runs : pc[q] # "idle"}) < limit
    /\ \E rq \in pool :
         /\ req' = [req EXCEPT ![r] = rq]
         /\ IF MissingKeys(rq)
            THEN /\ pc' = [pc EXCEPT ![r] = "done"]
                 /\ result' = [result EXCEPT ![r] = Err(400, "Bad request", "missing keys")]
                 /\ UNCHANGED <<tree, fs>>
            ELSE IF OpensTree(rq)
            THEN /\ \E t \in FreshNames(fs) :
                      /\ tree' = [tree EXCEPT ![r] = t]
                      /\ fs' = fs \cup {t}
                 /\ pc' = [pc EXCEPT ![r] = "clone"]
                 /\ UNCHANGED result
            ELSE /\ pc' = [pc EXCEPT ![r] = "kubeconfig"]
                 /\ UNCHANGED <<tree, fs, result>>
    /\ UNCHANGED <<deploy_conf, service_conf, image_name, calls, cluster, host, limit, pool>>

\* clone_repo: git.Repo.clone_from(repo, repo_dir)
CloneFrom(r) ==
    /\ pc[r] = "clone"
    /\ \E e \in {NoExc, "BadGitRepo"} :
         Step(r, Call("clone", tree[r], "", "", NoDoc, NoPlatforms, e), e)
    /\ UNCHANGED <<req, tree, deploy_conf, service_conf, image_name, cluster, host, limit, pool>>

\* a checkout made whatever the branch is
M_SkipsCheckout(branch) == FALSE

\* `if branch is not None:` guards the checkout
SkipsCheckout(branch) == branch = NullBranch

\* clone_repo: repo.git.checkout(branch) when branch is not None
Checkout(r) ==
    /\ pc[r] = "checkout"
    /\ IF SkipsCheckout(req[r].branch)
       THEN Quiet(r, NoExc)
       ELSE \E e \in {NoExc, "BadGitBranch"} :
              Step(r, Call("checkout", tree[r], "", req[r].branch, NoDoc, NoPlatforms, e), e)
    /\ UNCHANGED <<req, tree, deploy_conf, service_conf, image_name, cluster, host, limit, pool>>

\* deploy_conf = get_deploy_conf(deploy_conf_location, repo_dir)
GetDeployConf(r) ==
    /\ pc[r] = "deployconf"
    /\ LET path == ConfPath(req[r].deploy, "kaas.deploy.yml") IN
       IF path = NoPath
       THEN /\ deploy_conf' = [deploy_conf EXCEPT ![r] =
                                 get_deploy_conf(req[r].deploy, [state |-> "missing", doc |-> NoDoc]).doc]
            /\ Quiet(r, NoExc)
       ELSE \E file \in FileStates(path) :
              LET got == get_deploy_conf(req[r].deploy, file) IN
              /\ deploy_conf' = [deploy_conf EXCEPT ![r] = got.doc]
              /\ Step(r, Call("read", tree[r], "", path, got.doc, NoPlatforms, got.exc), got.exc)
    /\ UNCHANGED <<req, tree, service_conf, image_name, cluster, host, limit, pool>>

\* service_conf = get_service_conf(service_conf_location, repo_dir)
GetServiceConf(r) ==
    /\ pc[r] = "serviceconf"
    /\ LET path == ConfPath(req[r].service, "kaas.service.yml") IN
       IF path = NoPath
       THEN /\ service_conf' = [service_conf EXCEPT ![r] =
                                  get_service_conf(req[r].service, [state |-> "missing", doc |-> NoDoc]).doc]
            /\ Quiet(r, NoExc)
       ELSE \E file \in FileStates(path) :
              LET got == get_service_conf(req[r].service, file) IN
              /\ service_conf' = [service_conf EXCEPT ![r] = got.doc]
              /\ Step(r, Call("read", tree[r], "", path, got.doc, NoPlatforms, got.exc), got.exc)
    /\ UNCHANGED <<req, tree, deploy_conf, image_name, cluster, host, limit, pool>>

\* --------------------------------------------------------------- build_repo
\* the base image the Dockerfile's first FROM line names
FromName == "python:3"

\* open(f"{repo_dir}/Dockerfile") and fromregex.search(...).groups()[0]:
\* no Dockerfile is a FileNotFoundError, no FROM line an AttributeError
RecipeOutcomes == {NoExc, "FileNotFoundError", "AttributeError"}

\* how dclient.images.push can end: the image is published; the daemon
\* answers an error status (docker-py raises APIError); or the daemon
\* streams an errorDetail line in its output, which push() returns
PushOutcomes == {"ok", "APIError", "errorDetail"}

\* line 168 drops what push() returns: only a raised APIError stops the run
PushException(out) == IF out = "APIError" THEN "APIError" ELSE NoExc

ReadRecipe(r) ==
    /\ pc[r] = "recipe"
    /\ \E e \in RecipeOutcomes :
         Step(r, Call("recipe", tree[r], "", "Dockerfile", NoDoc, NoPlatforms, e), e)
    /\ UNCHANGED <<req, tree, deploy_conf, service_conf, image_name, cluster, host, limit, pool>>

\* platform_str = f"{platform.system()}/{platform_mappings[platform.machine()]}"
MapPlatform(r) ==
    /\ pc[r] = "platform"
    /\ Quiet(r, IF PlatformMapped(host) THEN NoExc ELSE "KeyError")
    /\ UNCHANGED <<req, tree, deploy_conf, service_conf, image_name, cluster, host, limit, pool>>

\* fromdata = dclient.images.get_registry_data(fromname), then the check
\* `if platform_str not in platforms: raise ArchNotSupported`
RegistryData(r) ==
    /\ pc[r] = "registry"
    /\ \/ Step(r, Call("registry", tree[r], "", FromName, NoDoc, NoPlatforms, "APIError"),
               "APIError")
       \/ \E m \in Manifests :
            LET e == IF ArchUnsupported(platform_str(host), m)
                     THEN "ArchNotSupported" ELSE NoExc IN
            Step(r, Call("registry", tree[r], "", FromName, NoDoc, m, e), e)
    /\ UNCHANGED <<req, tree, deploy_conf, service_conf, image_name, cluster, host, limit, pool>>

\* image_name = deploy_conf[...]["image"]; dclient.images.build(path, tag)
ImagesBuild(r) ==
    /\ pc[r] = "build"
    /\ LET f == ImageField(deploy_conf[r]) IN
       IF f.exc # NoExc
       THEN /\ Quiet(r, f.exc)
            /\ UNCHANGED image_name
       ELSE /\ image_name' = [image_name EXCEPT ![r] = f.doc.image]
            /\ \E e \in {NoExc, "BuildError"} :
                 Step(r, Call("build", tree[r], "", f.doc.image, NoDoc, NoPlatforms, e), e)
    /\ UNCHANGED <<req, tree, deploy_conf, service_conf, cluster, host, limit, pool>>

\* dclient.images.push(f"localhost:5000/{image_name}")
ImagesPush(r) ==
    /\ pc[r] = "push"
    /\ \E out \in PushOutcomes :
         Step(r, Call("push", tree[r], PushRegistry, image_name[r], NoDoc, NoPlatforms, out),
              PushException(out))
    /\ UNCHANGED <<req, tree, deploy_conf, service_conf, image_name, cluster, host, limit, pool>>

\* ------------------------------------------------------------ cluster calls
\* kubernetes.config.load_kube_config(): reads ~/.kube/config, no handler
\* catches its ConfigException
LoadKubeConfig(r) ==
    /\ pc[r] = "kubeconfig"
    /\ \E e \in {NoExc, "ConfigException"} : Quiet(r, e)
    /\ UNCHANGED <<req, tree, deploy_conf, service_conf, image_name, cluster, host, limit, pool>>

\* a cluster call ended with outcome o: the run returns or raises
ClusterStep(r, call, o) ==
    /\ calls' = [calls EXCEPT ![r] = Append(@, call)]
    /\ cluster' = o.cluster
    /\ Finish(r, IF o.exc = NoExc THEN Return(req[r], image_name[r])
                 ELSE Raise(req[r], pc[r], o.exc))

\* kubernetes_api.create_namespaced_deployment(body=deploy_conf, ...)
CreateDeployment(r) ==
    /\ pc[r] = "create"
    /\ \E o \in ClusterCreate(cluster, deploy_conf[r]) :
         ClusterStep(r, Call("create", NoTree, "", deploy_conf[r].name, deploy_conf[r],
                             NoPlatforms, o.exc), o)
    /\ UNCHANGED <<req, tree, deploy_conf, service_conf, image_name, host, limit, pool>>

\* kubernetes_api.patch_namespaced_deployment(name=image_name, body=deploy_conf)
PatchDeployment(r) ==
    /\ pc[r] = "patch"
    /\ \E o \in ClusterPatch(cluster, req[r].name, deploy_conf[r]) :
         ClusterStep(r, Call("patch", NoTree, "", req[r].name, deploy_conf[r],
                             NoPlatforms, o.exc), o)
    /\ UNCHANGED <<req, tree, deploy_conf, service_conf, image_name, host, limit, pool>>

\* kubernetes_api.delete_namespaced_deployment(name=image_name, ...)
DeleteDeployment(r) ==
    /\ pc[r] = "delete"
    /\ \E o \in ClusterDelete(cluster, req[r].name) :
         ClusterStep(r, Call("delete", NoTree, "", req[r].name, NoDoc, NoPlatforms, o.exc), o)
    /\ UNCHANGED <<req, tree, deploy_conf, service_conf, image_name, host, limit, pool>>

\* the response has been sent (the process has exited): the run's locals go
Retire(r) ==
    /\ pc[r] = "done"
    /\ pc' = [pc EXCEPT ![r] = "idle"]
    /\ req' = [req EXCEPT ![r] = NoRequest]
    /\ tree' = [tree EXCEPT ![r] = NoTree]
    /\ deploy_conf' = [deploy_conf EXCEPT ![r] = NoDoc]
    /\ service_conf' = [service_conf EXCEPT ![r] = NoDoc]
    /\ image_name' = [image_name EXCEPT ![r] = NoImage]
    /\ calls' = [calls EXCEPT ![r] = <<>>]
    /\ result' = [result EXCEPT ![r] = NoResult]
    /\ UNCHANGED <<fs, cluster, host, limit, pool>>

Next ==
    \E r \in Runs :
        \/ Receive(r)
        \/ CloneFrom(r)
        \/ Checkout(r)
        \/ GetDeployConf(r)
        \/ GetServiceConf(r)
        \/ ReadRecipe(r)
        \/ MapPlatform(r)
        \/ RegistryData(r)
        \/ ImagesBuild(r)
        \/ ImagesPush(r)
        \/ LoadKubeConfig(r)
        \/ CreateDeployment(r)
        \/ PatchDeployment(r)
        \/ DeleteDeployment(r)
        \/ Retire(r)

Spec == Init /\ [][Next]_vars

\* The steps the requests of ConcRequests can take: their create runs end in
\* build_repo at line 163 (an inline descriptor resolves to None), so no run
\* of SpecConc reaches the push or the cluster create.
NextConc ==
    \E r \in Runs :
        \/ Receive(r)
        \/ CloneFrom(r)
        \/ Checkout(r)
        \/ GetDeployConf(r)
        \/ GetServiceConf(r)
        \/ ReadRecipe(r)
        \/ MapPlatform(r)
        \/ RegistryData(r)
        \/ ImagesBuild(r)
        \/ LoadKubeConfig(r)
        \/ PatchDeployment(r)
        \/ DeleteDeployment(r)
        \/ Retire(r)

SpecConc == InitConc /\ [][NextConc]_vars

\* ------------------------------------------------------------- properties
Done(r) == pc[r] = "done"

\* run r has made a call of one of `ops`
Made(r, ops) == \E i \in DOMAIN calls[r] : calls[r][i].op \in ops

\* the calls of `op` run r has made
CallsOf(r, op) == {calls[r][i] : i \in {j \in DOMAIN calls[r] : calls[r][j].op = op}}

Failure(res) == res.kind \in {"err", "unhandled"} \/ (res.kind = "exit" /\ res.status # 0)

Success(res) == res.kind = "image" \/ (res.kind = "exit" /\ res.status = 0)

\* the call did what it was asked to
Succeeded(c) == c.out \in {NoExc, "ok"}

\* run r asked the registry for the base image's manifest and the manifest
\* does not list the host's platform
ManifestExcludesHost(r) ==
    \E c \in CallsOf(r, "registry") :
        /\ c.out # "APIError"
        /\ <<"linux", platform_mappings[host]>> \notin c.plats

\* C1: in a create run (server or one-shot) whose base image manifest does
\* not list the host's platform, the run has ended with the
\* architecture-unsupported error as a failure, and has made no build, no
\* push and no cluster create call.
C1_ArchUnsupportedStopsRun ==
    \A r \in Runs :
        (req[r].op = "create" /\ ManifestExcludesHost(r)) =>
            /\ Done(r)
            /\ Failure(result[r])
            /\ result[r].cause = "ArchNotSupported"
            /\ ~Made(r, {"build", "push", "create"})

C1_Witness ==
    \E r \in Runs :
        /\ req[r].op = "create"
        /\ ManifestExcludesHost(r)
        /\ Done(r)
        /\ result[r].cause = "ArchNotSupported"

\* the pipeline stage a call belongs to: clone, config resolution,
\* architecture check, build, push, cluster operation
StageOf(op) ==
    CASE op \in {"clone", "checkout"} -> 1
      [] op = "read" -> 2
      [] op \in {"recipe", "registry"} -> 3
      [] op = "build" -> 4
      [] op = "push" -> 5
      [] op \in {"create", "patch", "delete"} -> 6

\* C2: within one run the stages are invoked only in the order clone,
\* config resolution, architecture check, build, push, cluster operation;
\* every call that is followed by another call succeeded (no stage is
\* invoked after a failed one).
C2_StagesInOrder ==
    \A r \in Runs :
        \A i, j \in DOMAIN calls[r] :
            i < j => /\ StageOf(calls[r][i].op) <= StageOf(calls[r][j].op)
                     /\ Succeeded(calls[r][i])

\* C3: a run that made a WorkingTree has removed it when the run has ended,
\* whatever way it ended; the directories that exist are those of the runs
\* still in progress.
C3_TreeRemoved ==
    /\ \A r \in Runs : (Done(r) /\ tree[r] # NoTree) => tree[r] \notin fs
    /\ fs = {tree[r] : r \in {q \in Runs : pc[q] \notin {"idle", "done"}}} \ {NoTree}

C3_Witness ==
    \E r \in Runs :
        /\ Done(r)
        /\ tree[r] # NoTree
        /\ result[r].kind = "unhandled"
        /\ result[r].cause = "BadGitBranch"
        /\ tree[r] \notin fs

\* the clone and the branch checkout of run r went through
SourceCheckedOut(r) ==
    /\ \E c \in CallsOf(r, "clone") : Succeeded(c)
    /\ \A c \in CallsOf(r, "checkout") : Succeeded(c)

\* C4: a finished create run on a reachable source and an existing branch
\* ends either with the image tag of the resolved deploy descriptor or with
\* an error, never both; a returned tag means build, push and cluster
\* create all succeeded.
C4_TagOrError ==
    \A r \in Runs :
        (req[r].op = "create" /\ Done(r) /\ SourceCheckedOut(r)) =>
            /\ Success(result[r]) # Failure(result[r])
            /\ Failure(result[r]) => result[r].image = NoImage
            /\ result[r].kind = "image" => result[r].image = deploy_conf[r].image
            /\ Success(result[r]) =>
                 /\ \E c \in CallsOf(r, "build") : Succeeded(c)
                 /\ \E c \in CallsOf(r, "push") : Succeeded(c)
                 /\ \E c \in CallsOf(r, "create") : Succeeded(c)

\* C5: in a create run, once the push of the image has failed, the run ends
\* as a failure and no cluster create is made.
C5_PushFailureStopsRun ==
    \A r \in Runs :
        (req[r].op = "create" /\ \E c \in CallsOf(r, "push") : ~Succeeded(c)) =>
            /\ ~Made(r, {"create"})
            /\ Done(r) => Failure(result[r])

\* C6: every finished server call carries a structured payload, {image} or
\* {err}: status 400 for a request with missing keys, status 500 with the
\* cause for every failure of a pipeline stage.
C6_StructuredPayload ==
    \A r \in Runs :
        (req[r].form = "server" /\ Done(r)) =>
            /\ result[r].kind \in {"image", "err"}
            /\ MissingKeys(req[r]) => (result[r].kind = "err" /\ result[r].status = 400)
            /\ (result[r].kind = "err" /\ ~MissingKeys(req[r])) =>
                   (result[r].status = 500 /\ result[r].cause # NoExc)

\* a create / restart request with a required key missing, or whose
\* deploy_config is a serialized payload that does not parse
Malformed(rq) ==
    /\ rq.form = "server"
    /\ rq.op \in {"create", "restart"}
    /\ MissingKeys(rq) \/ rq.deploy = StrRef(BadPayload)

\* C7: a create or restart request with malformed input makes no external
\* call at all, and ends rejected (status 400).
C7_MalformedRejectedFirst ==
    \A r \in Runs :
        Malformed(req[r]) =>
            /\ calls[r] = <<>>
            /\ Done(r) => (result[r].kind = "err" /\ result[r].status = 400)

\* the descriptor the caller gave run r: inline in the request, or as the
\* content of the file the run read from the checkout
GivenDescriptor(r) ==
    IF req[r].deploy.kind = "obj" THEN req[r].deploy.doc
    ELSE IF \E c \in CallsOf(r, "read") :
               c.text = ConfPath(req[r].deploy, "kaas.deploy.yml") /\ Succeeded(c)
    THEN (CHOOSE c \in CallsOf(r, "read") :
               c.text = ConfPath(req[r].deploy, "kaas.deploy.yml") /\ Succeeded(c)).doc
    ELSE NoDoc

\* C8: a create run behaves the same whether its descriptor came inline or
\* from a file: once the architecture check has passed, the image built is
\* the given descriptor's image, and the body sent to the cluster is the
\* given descriptor.
C8_InlineSameAsFile ==
    \A r \in Runs :
        (req[r].op = "create" /\ Done(r) /\ GivenDescriptor(r).image # NoImage
            /\ \E c \in CallsOf(r, "registry") : Succeeded(c)) =>
            /\ \E c \in CallsOf(r, "build") : c.text = GivenDescriptor(r).image
            /\ \A c \in CallsOf(r, "create") : c.doc = GivenDescriptor(r)

\* C9 as claimed: a remove run, in either form, makes no external call but
\* the cluster delete.
C9_DeleteOnly ==
    \A r \in Runs :
        req[r].op = "delete" => \A i \in DOMAIN calls[r] : calls[r][i].op = "delete"

\* C9 amended: a server remove run makes the cluster delete as its only
\* external call, and on a missing workload ends with the not-found error
\* having made that one call; a one-shot --delete run makes the clone, the
\* branch checkout and the config reads first, then the cluster delete as
\* its last and only cluster call; neither form asks the registry, builds
\* or pushes.
C9_DeleteCalls ==
    \A r \in Runs :
        req[r].op = "delete" =>
            /\ ~Made(r, {"recipe", "registry", "build", "push", "create", "patch"})
            /\ Cardinality({i \in DOMAIN calls[r] : calls[r][i].op = "delete"}) <= 1
            /\ \A i \in DOMAIN calls[r] : calls[r][i].op = "delete" => i = Len(calls[r])
            /\ req[r].form = "server" =>
                 /\ \A i \in DOMAIN calls[r] : calls[r][i].op = "delete"
                 /\ (Done(r) /\ \E c \in CallsOf(r, "delete") : c.out = "ApiException: Not Found") =>
                        /\ result[r] = Err(500, "Failed to deploy", "ApiException: Not Found")
                        /\ Len(calls[r]) = 1
            /\ (req[r].form = "cli" /\ Made(r, {"delete"})) =>
                 /\ calls[r][1].op = "clone"
                 /\ Cardinality(CallsOf(r, "read")) = 2
                 /\ \A i \in DOMAIN calls[r] : i < Len(calls[r]) => Succeeded(calls[r][i])

C9_Witness ==
    \E r \in Runs :
        /\ req[r].op = "delete"
        /\ req[r].form = "cli"
        /\ Done(r)
        /\ Len(calls[r]) = 5
        /\ calls[r][5].op = "delete"
        /\ calls[r][5].out = "ApiException: Not Found"
        /\ result[r] = Exit(1, "Error deploying repo", "ApiException: Not Found")

\* C10: a restart run or a delete run, in either form, never reads the
\* build recipe, asks the registry for a manifest, builds or pushes.
C10_NoBuildOnRestartDelete ==
    \A r \in Runs :
        req[r].op \in {"restart", "delete"} =>
            ~Made(r, {"recipe", "registry", "build", "push"})

C10_Witness ==
    \E r \in Runs :
        /\ req[r].op = "restart"
        /\ req[r].form = "cli"
        /\ Done(r)
        /\ Success(result[r])
        /\ \E c \in CallsOf(r, "patch") : Succeeded(c)

\* C11, the calls: a create run never patches and a restart run never
\* creates; a create answered "already exists" and a restart answered "not
\* found" end the run as a failure carrying that error.
C11_Calls ==
    \A r \in Runs :
        /\ req[r].op = "create" =>
             /\ ~Made(r, {"patch"})
             /\ \A c \in CallsOf(r, "create") :
                  c.out = "ApiException: Conflict" =>
                      (Done(r) /\ Failure(result[r])
                         /\ result[r].cause = "ApiException: Conflict")
        /\ req[r].op = "restart" =>
             /\ ~Made(r, {"create"})
             /\ \A c \in CallsOf(r, "patch") :
                  c.out = "ApiException: Not Found" =>
                      (Done(r) /\ Failure(result[r])
                         /\ result[r].cause = "ApiException: Not Found")

\* C11, the cluster: the cluster call of a create run on a name that exists,
\* and of a restart run on a name that does not, leaves every workload as it
\* was and ends the run as a failure.
C11_Step ==
    \A r \in Runs :
        /\ (pc[r] = "create" /\ pc'[r] = "done" /\ deploy_conf[r].name \in Names
              /\ cluster[deploy_conf[r].name] # NoDoc) =>
               (cluster' = cluster /\ Failure(result'[r]))
        /\ (pc[r] = "patch" /\ pc'[r] = "done" /\ cluster[req[r].name] = NoDoc) =>
               (cluster' = cluster /\ Failure(result'[r]))

\* C11: create and patch are never substituted for each other: a create run
\* on an existing workload name fails with the already-exists error and
\* leaves the workload unchanged, a restart run on a missing name fails with
\* the not-found error and creates nothing.
C11_NoUpsert == []C11_Calls /\ [][C11_Step]_vars

C11_Witness ==
    \E r \in Runs :
        /\ req[r].op = "create"
        /\ Done(r)
        /\ \E c \in CallsOf(r, "create") : c.out = "ApiException: Conflict"
        /\ result[r].cause = "ApiException: Conflict"
        /\ cluster[deploy_conf[r].name] # NoDoc

\* C12: a finished one-shot run has status zero exactly when every call it
\* made succeeded; a run in which a stage failed ends with a non-zero status.
C12_ExitStatus ==
    \A r \in Runs :
        (req[r].form = "cli" /\ Done(r)) =>
            /\ (\E i \in DOMAIN calls[r] : ~Succeeded(calls[r][i])) => result[r].status # 0
            /\ result[r].status = 0 => \A i \in DOMAIN calls[r] : Succeeded(calls[r][i])

\* the stage tag a caller is given with a failure of the build engine
BuildFailureTag(rq) == Raise(rq, "build", "BuildError").prefix

\* C13: in a create run whose push raised, the stage tag reported with the
\* failure differs from the tag reported for a failure of the build engine.
C13_BuildPushDistinct ==
    \A r \in Runs :
        (req[r].op = "create" /\ Done(r)
            /\ \E c \in CallsOf(r, "push") : c.out = "APIError") =>
            /\ Failure(result[r])
            /\ result[r].prefix # BuildFailureTag(req[r])

\* run r is in progress and holds a WorkingTree
Holds(r) == pc[r] \notin {"idle", "done"} /\ tree[r] # NoTree

\* C14: no two runs in progress hold the same WorkingTree, and the tree of a
\* run in progress exists: no other run's cleanup has removed it.
C14_TreesNotShared ==
    /\ \A r1, r2 \in Runs : (r1 # r2 /\ Holds(r1) /\ Holds(r2)) => tree[r1] # tree[r2]
    /\ \A r \in Runs : Holds(r) => tree[r] \in fs

\* one run has ended and removed its tree while another still holds its own
C14_Witness ==
    \E r1, r2 \in Runs :
        /\ r1 # r2
        /\ Done(r1)
        /\ tree[r1] # NoTree
        /\ tree[r1] \notin fs
        /\ Holds(r2)
        /\ tree[r2] \in fs
        /\ Made(r2, {"clone"})

\* C15, the values: the tag every build call of a create run is given, and
\* the image field of the body every create call submits, are the image
\* field of the run's one deploy_conf.
C15_SameTag ==
    \A r \in Runs :
        req[r].op = "create" =>
            /\ \A b \in CallsOf(r, "build") : b.text = deploy_conf[r].image
            /\ \A c \in CallsOf(r, "create") :
                 /\ c.doc = deploy_conf[r]
                 /\ \A b \in CallsOf(r, "build") : c.doc.image = b.text

\* C15, the snapshot: from the build call on, no step of the run changes
\* its deploy_conf.
C15_Step ==
    \A r \in Runs :
        (Made(r, {"build"}) /\ pc'[r] # "idle") => deploy_conf'[r] = deploy_conf[r]

\* C15: in a create run the tag built and the image field of the deploy
\* body submitted are the same value, read from one descriptor that is not
\* modified between the build and the deploy.
C15_NoDrift == []C15_SameTag /\ [][C15_Step]_vars

C15_Witness ==
    \E r \in Runs :
        /\ req[r].op = "create"
        /\ Done(r)
        /\ Success(result[r])
        /\ \E b \in CallsOf(r, "build") : b.text = "web:2"
        /\ \E c \in CallsOf(r, "create") : c.doc = Dweb /\ Succeeded(c)

\* C16: every reference a create run hands to the push names an image that
\* a successful build of the same run tagged under exactly that reference.
C16_PushesWhatWasBuilt ==
    \A r \in Runs :
        req[r].op = "create" =>
            \A p \in CallsOf(r, "push") :
                \E b \in CallsOf(r, "build") :
                    /\ Succeeded(b)
                    /\ b.reg = p.reg
                    /\ b.text = p.text

\* C17: a create run whose resolved deploy descriptor has no image field
\* (None included) makes no build, push or cluster create call, ends as a
\* failure, and when it got as far as the image lookup ends with the
\* lookup's error.
C17_NoImageNoBuild ==
    \A r \in Runs :
        (req[r].op = "create" /\ deploy_conf[r].image = NoImage) =>
            /\ ~Made(r, {"build", "push", "create"})
            /\ pc[r] \notin {"push", "create"}
            /\ Done(r) => Failure(result[r])
            /\ (Done(r) /\ \E c \in CallsOf(r, "registry") : Succeeded(c)) =>
                   result[r].cause \in {"TypeError", "KeyError"}

C17_Witness ==
    \E r \in Runs :
        /\ req[r].op = "create"
        /\ deploy_conf[r] = DnoImage
        /\ Done(r)
        /\ \E c \in CallsOf(r, "registry") : Succeeded(c)
        /\ result[r].cause = "KeyError"
        /\ ~Made(r, {"build", "push", "create"})

\* C18: a failed clone ends the run with the source-unreachable error as
\* its only call; a failed checkout of a non-null branch, after a clone that
\* succeeded, ends it with the ref-not-found error as its second call; a
\* null branch makes no checkout call; in both failures nothing follows and
\* the WorkingTree is removed.
C18_CheckoutFailures ==
    \A r \in Runs :
        /\ \A c \in CallsOf(r, "clone") :
             ~Succeeded(c) =>
                 /\ Done(r)
                 /\ Failure(result[r])
                 /\ result[r].cause = "BadGitRepo"
                 /\ Len(calls[r]) = 1
                 /\ tree[r] \notin fs
        /\ \A c \in CallsOf(r, "checkout") :
             /\ c.text = req[r].branch
             /\ Succeeded(calls[r][1])
             /\ ~Succeeded(c) =>
                 /\ Done(r)
                 /\ Failure(result[r])
                 /\ result[r].cause = "BadGitBranch"
                 /\ Len(calls[r]) = 2
                 /\ tree[r] \notin fs
        /\ req[r].branch = NullBranch => ~Made(r, {"checkout"})
        /\ (req[r].branch # NullBranch /\ Made(r, {"read", "recipe"})) =>
               \E c \in CallsOf(r, "checkout") : Succeeded(c)

C18_Witness ==
    \E r \in Runs :
        /\ Done(r)
        /\ tree[r] # NoTree
        /\ Len(calls[r]) = 1
        /\ calls[r][1].op = "clone"
        /\ result[r].cause = "BadGitRepo"
        /\ tree[r] \notin fs

\* C19: on a host whose machine has no entry in platform_mappings, a create
\* run never gets to the registry lookup, the build, the push or the
\* cluster create, and ends as a failure (the KeyError of the lookup when the
\* run got as far as the architecture check).
C19_UnmappedHostFails ==
    \A r \in Runs :
        (req[r].op = "create" /\ host \notin DOMAIN platform_mappings) =>
            /\ pc[r] \notin {"registry", "build", "push", "create"}
            /\ ~Made(r, {"registry", "build", "push", "create"})
            /\ Done(r) => Failure(result[r])
            /\ (Done(r) /\ \E c \in CallsOf(r, "recipe") : Succeeded(c)) =>
                   result[r].cause = "KeyError"

C19_Witness ==
    \E r \in Runs :
        /\ req[r].op = "create"
        /\ host = "riscv64"
        /\ Done(r)
        /\ \E c \in CallsOf(r, "recipe") : Succeeded(c)
        /\ result[r].cause = "KeyError"
        /\ ~Made(r, {"registry", "build", "push", "create"})

\* the reads run r made of its service config file
ServiceReads(r) ==
    {c \in CallsOf(r, "read") : c.text = ConfPath(req[r].service, "kaas.service.yml")}

ClusterCalls(r) ==
    {i \in DOMAIN calls[r] : calls[r][i].op \in {"create", "patch", "delete"}}

\* C20: a create run reads its service config file before the architecture
\* check, and a failed read ends the run there; the only cluster call a
\* create run makes is the create of the deployment document (never the
\* service document), and a successful run has made exactly that one.
C20_ServiceNeverSubmitted ==
    \A r \in Runs :
        req[r].op = "create" =>
            /\ \A c \in ServiceReads(r) :
                 ~Succeeded(c) =>
                     /\ Done(r)
                     /\ Failure(result[r])
                     /\ ~Made(r, {"recipe", "registry", "build", "push", "create"})
            /\ (Made(r, {"recipe"}) /\ req[r].service.kind # "obj") =>
                 \E c \in ServiceReads(r) :
                     Succeeded(c) /\ c.doc = ServiceDoc /\ service_conf[r] = ServiceDoc
            /\ \A i \in ClusterCalls(r) :
                 /\ calls[r][i].op = "create"
                 /\ calls[r][i].doc.kind = "Deployment"
                 /\ calls[r][i].doc = deploy_conf[r]
            /\ (Done(r) /\ Success(result[r])) => Cardinality(ClusterCalls(r)) = 1

C20_Witness ==
    \E r \in Runs :
        /\ req[r].op = "create"
        /\ Done(r)
        /\ Success(result[r])
        /\ \E c \in ServiceReads(r) : Succeeded(c) /\ c.doc = ServiceDoc
        /\ Cardinality(ClusterCalls(r)) = 1
        /\ cluster[deploy_conf[r].name] = deploy_conf[r]

====
